---- MODULE Spec2Model ----
(***************************************************************************)
(* Focus To-Do: the Pomodoro timer module (src/js/timer.js), the task      *)
(* stores (src/js/tasks.js: the TaskManager class and the functional       *)
(* module), the progress module and the glue between them.                 *)
(***************************************************************************)
EXTENDS Integers, Sequences, FiniteSets, TLC

\* ---------------------------------------------------------------- bounds
\* Focus completions explored before the model stops completing sessions.
MaxCompleted == 4
\* Tick sources (setInterval timers) that may be scheduled at once.
MaxIntervals == 2
\* Longest task list explored in the functional store.
MaxTasks == 3
\* Longest task list explored in a TaskManager.
MaxManagerTasks == 2
\* Date.now() ranges over ClockStart .. ClockStart + ClockSpan.
ClockStart == 10
ClockSpan == 2
\* Distinct outcomes of Math.random().toString(36).substr(2, 5).
NumRandom == 2
\* Longest project list and longest subtask list explored in a TaskManager.
MaxProjects == 2
MaxSubtasks == 1
\* Instants of the clock that make up one calendar day.
ClockPerDay == 2
\* Largest value explored for the counters of the daily statistics, and
\* for the planned pomodoros among them.
MaxCount == 3
MaxPlanned == 12

\* ------------------------------------------------------ program constants
\* DEFAULT_SETTINGS.pomodoro = 25 * 60
PomodoroSeconds == 1500
\* DEFAULT_SETTINGS.shortBreak = 5 * 60
ShortBreakSeconds == 300
\* DEFAULT_SETTINGS.longBreak = 15 * 60
LongBreakSeconds == 900
\* DEFAULT_SETTINGS.longBreakInterval
longBreakInterval == 4

\* null for a task id of the functional store (real ids are positive)
NoTask == 0
\* an id no TaskManager task has
NoId == <<NoTask, NoTask>>

Modes == {"pomodoro", "shortBreak", "longBreak"}

\* DEFAULT_SETTINGS[mode]
DEFAULT_SETTINGS(mode) ==
    CASE mode = "pomodoro"   -> PomodoroSeconds
      [] mode = "shortBreak" -> ShortBreakSeconds
      [] mode = "longBreak"  -> LongBreakSeconds

VARIABLES
    \* timerState (timer.js)
    currentMode, timeRemaining, isRunning, currentTask, completedPomodoros,
    \* timerInterval: the handle kept by the module; activeIntervals: how
    \* many setInterval tick sources the browser still has scheduled
    timerInterval, activeIntervals,
    \* timer.js's selectedTaskId
    selectedTaskId,
    \* the task array of tasks.js
    tasks,
    \* the task array of timer.js: the array of tasks.js, handed over by
    \* setTasks(getTasks()), until tasks.js replaces its own
    timerTasks,
    \* the task elements of the page, as renderTasks and the drop handler
    \* leave them
    displayed,
    \* the task list last written by saveState({ tasks }); <<>> before any
    savedTasks,
    \* progress.js's progressData
    progressData,
    \* TaskManager: this.tasks, and the callbacks fired by its last call
    tmTasks, tmNotified,
    \* TaskManager: this.projects, and the arguments and the return value
    \* of its last call
    tmProjects, tmArgs, tmResult,
    \* the ids handed to TaskManager.deleteTask so far
    deletedIds,
    \* ProgressTracker: this.dailyStats and this.history
    dailyStats, history,
    \* the browser's localStorage, and the return value of the last call of
    \* a StorageManager method
    localStorage, smResult,
    \* the clock read by Date.now() and new Date()
    now,
    \* the handler that ran last, and the ticks counted since construction
    \* while the only operations were one start followed by ticks (-1 after
    \* anything else)
    lastOp, ticks

timerVars == <<currentMode, timeRemaining, isRunning, currentTask,
               completedPomodoros, timerInterval, activeIntervals,
               selectedTaskId>>
storeVars == <<tasks, savedTasks, progressData, timerTasks, displayed>>
tmVars == <<tmTasks, tmNotified, tmProjects, tmArgs, tmResult>>
trackerVars == <<dailyStats, history>>
storageVars == <<localStorage, smResult>>
vars == <<currentMode, timeRemaining, isRunning, currentTask,
          completedPomodoros, timerInterval, activeIntervals,
          selectedTaskId, tasks, timerTasks, displayed, savedTasks,
          progressData,
          tmTasks, tmNotified, tmProjects, tmArgs, tmResult, deletedIds,
          dailyStats, history, localStorage, smResult, now, lastOp, ticks>>

\* ------------------------------------------------------------ task data
\* createSampleTasks: the first sample task; pomodoroQuantity
\* { completed: 0, total: 1 } is kept as two fields
createSampleTasks ==
    << [id |-> 1, completed |-> FALSE, project |-> "Work",
        pomodoroCompleted |-> 0, pomodoroTotal |-> 1] >>

\* tasks.find(t => t.id == taskId) / findIndex: index of the first match,
\* 0 if none
FindTask(ts, taskId) ==
    IF \E i \in 1..Len(ts) : ts[i].id = taskId
    THEN CHOOSE i \in 1..Len(ts) :
            /\ ts[i].id = taskId
            /\ \A j \in 1..(i - 1) : ts[j].id # taskId
    ELSE 0

\* the ids of a task list, in order
IdsOf(ts) == [i \in 1..Len(ts) |-> ts[i].id]

IdSet(ts) == {ts[i].id : i \in 1..Len(ts)}

\* sum of f[i] over 1..n
RECURSIVE SumTo(_, _)
SumTo(f, n) == IF n = 0 THEN 0 ELSE f[n] + SumTo(f, n - 1)

\* updateProgress(tasks): the statistics computed from the given list
updateProgress(ts) ==
    [totalTasks |-> Len(ts),
     completedTasks |-> Cardinality({i \in 1..Len(ts) : ts[i].completed}),
     totalPomodoros |-> SumTo([i \in 1..Len(ts) |-> ts[i].pomodoroTotal], Len(ts)),
     completedPomodoros |->
         SumTo([i \in 1..Len(ts) |-> ts[i].pomodoroCompleted], Len(ts))]

\* saveState({ tasks }): the list as serialised into storage
saveState(ts) == ts

\* the task elements renderTasks(tasksToRender) builds: one per task, with
\* its data-task-id, in the '.tasks' container of its project (the
\* elements of one container keep the order of the list)
Rendered(ts) ==
    [i \in 1..Len(ts) |-> [id |-> ts[i].id, project |-> ts[i].project]]

\* timer.js holds the very array of tasks.js
SharedArray == [same |-> TRUE, list |-> <<>>]

\* the tasks timer.js sees in its array. Once tasks.js has replaced its
\* array, timerTasks.list holds for every element of the old array the task
\* as that object shows it, the index under which tasks.js still holds the
\* same object (obj, 0 if it does not) and the index of the task of
\* tasks.js that has the same pomodoroQuantity object (pq, 0 if none)
TimerArray ==
    IF timerTasks.same THEN tasks
    ELSE [k \in 1..Len(timerTasks.list) |-> timerTasks.list[k].task]

\* _getCurrentDateString() at instant t: the calendar day t falls in (the
\* YYYY-MM-DD text of _formatDate names exactly that day)
DayOf(t) == t \div ClockPerDay

\* the all-zero aggregate of a day
ZeroStats(date) ==
    [date |-> date, completedTasks |-> 0, completedPomodoros |-> 0,
     totalFocusTime |-> 0, plannedTasks |-> 0, plannedPomodoros |-> 0]

\* ----------------------------------------------------------------- Init
TimerInit ==
    /\ currentMode = "pomodoro"
    /\ timeRemaining = DEFAULT_SETTINGS("pomodoro")
    /\ isRunning = FALSE
    /\ currentTask = NoTask
    /\ completedPomodoros = 0
    /\ timerInterval = "null"
    /\ activeIntervals = 0
    /\ selectedTaskId = NoTask

\* initTaskManagement with empty storage: the sample tasks, rendered
StoreInit ==
    /\ tasks = createSampleTasks
    /\ timerTasks = SharedArray
    /\ displayed = Rendered(createSampleTasks)
    /\ savedTasks = <<>>
    /\ progressData = updateProgress(createSampleTasks)

\* new TaskManager()
TaskManagerInit ==
    /\ tmTasks = <<>>
    /\ tmProjects = <<>>
    /\ tmNotified = {}
    /\ tmArgs = <<>>
    /\ tmResult = "none"

\* new ProgressTracker()
TrackerInit ==
    /\ dailyStats = ZeroStats(DayOf(ClockStart))
    /\ history = [d \in {} |-> ZeroStats(d)]

\* a JavaScript value as the storage module sees it: its kind (array, a
\* plain object with named fields "record", a plain object keyed by dates
\* "mapping", null, undefined, boolean, string, or an exception thrown
\* instead of a value) and its content
Arr(list) == [kind |-> "array", val |-> list]
Rec(fields) == [kind |-> "record", val |-> fields]
Map(entries) == [kind |-> "mapping", val |-> entries]
Null == [kind |-> "null", val |-> <<>>]
Undefined == [kind |-> "undefined", val |-> <<>>]
Bool(b) == [kind |-> "boolean", val |-> b]
Str(chars) == [kind |-> "string", val |-> chars]
Thrown == [kind |-> "exception", val |-> <<>>]

\* StorageKeys, without the common prefix 'focusTodo.'
StorageKeys == {"tasks", "projects", "timerSettings", "dailyStats",
                "history", "appSettings"}

\* localStorage.getItem of a key that is not set: null
NoItem == [chars |-> "none", of |-> Undefined]

\* an empty localStorage, and no StorageManager call made yet
StorageInit ==
    /\ localStorage = [key \in StorageKeys |-> NoItem]
    /\ smResult = Undefined

Init ==
    /\ TimerInit
    /\ StoreInit
    /\ TaskManagerInit
    /\ TrackerInit
    /\ StorageInit
    /\ deletedIds = {}
    /\ now = ClockStart
    /\ lastOp = "init"
    /\ ticks = 0

\* ------------------------------------------------------------ timer.js
\* what no handler of timer.js touches
outsideTimer == <<progressData, displayed, tmTasks, tmNotified, tmProjects, tmArgs,
                  tmResult, deletedIds, dailyStats, history, localStorage,
                  smResult, now>>

\* startTimer: no check of isRunning; a new interval is scheduled and the
\* handle is overwritten (an interval it referred to stays scheduled)
startTimer ==
    /\ isRunning' = TRUE
    /\ activeIntervals' = activeIntervals + 1
    /\ timerInterval' = "active"

\* clearInterval(timerInterval): stops the interval the handle refers to,
\* if it is still scheduled
ClearedIntervals ==
    IF timerInterval = "active" THEN activeIntervals - 1 ELSE activeIntervals

ClearedHandle ==
    IF timerInterval = "active" THEN "cleared" ELSE timerInterval

\* pauseTimer
pauseTimer ==
    /\ isRunning' = FALSE
    /\ activeIntervals' = ClearedIntervals
    /\ timerInterval' = ClearedHandle

\* switchTimerMode that forgets to reload the duration
switchTimerMode_keepTime(mode) ==
    /\ currentMode' = mode
    /\ timeRemaining' = timeRemaining

\* switchTimerMode(mode)
switchTimerMode(mode) ==
    /\ currentMode' = mode
    /\ timeRemaining' = DEFAULT_SETTINGS(mode)

\* the break chosen from the counter before its increment
NextBreak_stale(completed) ==
    IF (completed - 1) % longBreakInterval = 0 THEN "longBreak" ELSE "shortBreak"

\* the break chosen after a focus session, from the incremented counter
NextBreak(completed) ==
    IF completed % longBreakInterval = 0 THEN "longBreak" ELSE "shortBreak"

\* a counter that starts over with every long break
IncrementCompleted_wrap(completed) == (completed + 1) % longBreakInterval

\* timerState.completedPomodoros++
IncrementCompleted(completed) == completed + 1

\* the task array after crediting one pomodoro to the task at index i
CreditPomodoro(ts, i) ==
    [ts EXCEPT ![i].pomodoroCompleted = ts[i].pomodoroCompleted + 1]

\* task.pomodoroQuantity.completed = (... || 0) + 1 for the task found at
\* index k of the timer's array, then saveState({ tasks }) with that array:
\* the increment shows in every task that has the same pomodoroQuantity
\* object
CreditFound(k) ==
    IF timerTasks.same
    THEN /\ tasks' = CreditPomodoro(tasks, k)
         /\ savedTasks' = saveState(tasks')
         /\ UNCHANGED timerTasks
    ELSE /\ timerTasks' =
                [timerTasks EXCEPT !.list[k].task.pomodoroCompleted = @ + 1]
         /\ tasks' = IF timerTasks.list[k].pq # 0
                      THEN CreditPomodoro(tasks, timerTasks.list[k].pq)
                      ELSE tasks
         /\ savedTasks' =
                saveState([i \in 1..Len(timerTasks.list) |->
                              timerTasks'.list[i].task])

\* completeTimer
completeTimer ==
    /\ pauseTimer
    /\ IF currentMode = "pomodoro"
       THEN /\ completedPomodoros' = IncrementCompleted(completedPomodoros)
            /\ IF currentTask # NoTask /\ FindTask(TimerArray, currentTask) # 0
               THEN CreditFound(FindTask(TimerArray, currentTask))
               ELSE UNCHANGED <<tasks, savedTasks, timerTasks>>
            /\ switchTimerMode(NextBreak(completedPomodoros'))
            /\ lastOp' = "focusCompleted"
       ELSE /\ switchTimerMode("pomodoro")
            /\ lastOp' = "breakCompleted"
            /\ UNCHANGED <<completedPomodoros, tasks, savedTasks, timerTasks>>
    /\ UNCHANGED <<currentTask, selectedTaskId>>

\* a play button that restarts the interval from its full duration
ToggleTimer_restart ==
    /\ IF isRunning
       THEN /\ pauseTimer
            /\ lastOp' = "pause"
            /\ ticks' = -1
            /\ UNCHANGED timeRemaining
       ELSE /\ activeIntervals < MaxIntervals
            /\ startTimer
            /\ timeRemaining' = DEFAULT_SETTINGS(currentMode)
            /\ lastOp' = IF lastOp = "pause" THEN "resume" ELSE "start"
            /\ ticks' = IF lastOp = "init" THEN 0 ELSE -1
    /\ UNCHANGED <<currentMode, currentTask, completedPomodoros,
                   selectedTaskId, tasks, savedTasks, timerTasks>>
    /\ UNCHANGED outsideTimer

\* toggleTimer: the play/pause button ("resume" is a start that directly
\* follows a pause)
ToggleTimer ==
    /\ IF isRunning
       THEN /\ pauseTimer
            /\ lastOp' = "pause"
            /\ ticks' = -1
       ELSE /\ activeIntervals < MaxIntervals
            /\ startTimer
            /\ lastOp' = IF lastOp = "pause" THEN "resume" ELSE "start"
            /\ ticks' = IF lastOp = "init" THEN 0 ELSE -1
    /\ UNCHANGED <<currentMode, timeRemaining, currentTask, completedPomodoros,
                   selectedTaskId, tasks, savedTasks, timerTasks>>
    /\ UNCHANGED outsideTimer

\* tickTimer: one callback of one scheduled interval
TickTimer ==
    /\ activeIntervals > 0
    /\ ticks' = IF ticks >= 0 /\ ticks <= PomodoroSeconds THEN ticks + 1 ELSE -1
    /\ IF timeRemaining > 0
       THEN /\ timeRemaining' = timeRemaining - 1
            /\ lastOp' = "tick"
            /\ UNCHANGED <<currentMode, isRunning, currentTask, completedPomodoros,
                           timerInterval, activeIntervals, selectedTaskId,
                           tasks, savedTasks, timerTasks>>
       ELSE /\ currentMode = "pomodoro" => completedPomodoros < MaxCompleted
            /\ completeTimer
    /\ UNCHANGED outsideTimer

\* resetTimer
ResetTimer ==
    /\ IF isRunning
       THEN pauseTimer
       ELSE UNCHANGED <<isRunning, activeIntervals, timerInterval>>
    /\ timeRemaining' = DEFAULT_SETTINGS(currentMode)
    /\ lastOp' = "reset"
    /\ ticks' = -1
    /\ UNCHANGED <<currentMode, currentTask, completedPomodoros, selectedTaskId,
                   tasks, savedTasks, timerTasks>>
    /\ UNCHANGED outsideTimer

\* the ids a caller may hand to the timer: those of the tasks, and null
TimerIdInputs == IdSet(tasks) \cup {NoTask}

\* setSelectedTaskId(taskId)
SetSelectedTaskId ==
    \E taskId \in TimerIdInputs :
        /\ selectedTaskId # taskId
        /\ selectedTaskId' = taskId
        /\ lastOp' = "setSelectedTaskId"
        /\ ticks' = -1
        /\ UNCHANGED <<currentMode, timeRemaining, isRunning, currentTask,
                       completedPomodoros, timerInterval, activeIntervals,
                       tasks, savedTasks, timerTasks>>
        /\ UNCHANGED outsideTimer

\* startPomodoro(taskId)
startPomodoro(taskId) ==
    IF FindTask(TimerArray, taskId) = 0
    THEN UNCHANGED timerVars
    ELSE /\ activeIntervals < MaxIntervals
         /\ currentTask' = taskId
         /\ selectedTaskId' = taskId
         /\ currentMode' = "pomodoro"
         /\ timeRemaining' = DEFAULT_SETTINGS("pomodoro")
         /\ startTimer
         /\ UNCHANGED completedPomodoros

\* the document click listener on '.pomodoro-quantity'
ClickPomodoroQuantity ==
    /\ selectedTaskId # NoTask
    /\ startPomodoro(selectedTaskId)
    /\ lastOp' = "startPomodoro"
    /\ ticks' = -1
    /\ UNCHANGED <<tasks, savedTasks, timerTasks>>
    /\ UNCHANGED outsideTimer

TimerNext ==
    \/ ToggleTimer
    \/ TickTimer
    \/ ResetTimer
    \/ SetSelectedTaskId
    \/ ClickPomodoroQuantity

\* the timer with every operation of the module
SpecTimer == Init /\ [][TimerNext]_vars

\* the countdown driven by the play/pause button alone
CountdownNext ==
    \/ ToggleTimer
    \/ TickTimer

SpecCountdown == Init /\ [][CountdownNext]_vars

TimerTypeOK ==
    /\ currentMode \in Modes
    /\ timeRemaining \in 0..PomodoroSeconds
    /\ isRunning \in BOOLEAN
    /\ completedPomodoros \in 0..MaxCompleted
    /\ activeIntervals \in 0..MaxIntervals
    /\ timerInterval \in {"null", "active", "cleared"}

\* ------------------------------------------------- tasks.js: the module
\* what no handler of the functional task module touches
outsideStore == <<currentMode, timeRemaining, isRunning, currentTask,
                  completedPomodoros, timerInterval, activeIntervals,
                  selectedTaskId, tmTasks, tmNotified, tmProjects, tmArgs,
                  tmResult, dailyStats, history, localStorage, smResult,
                  ticks>>

\* { ...task, ...changes }: the fields of changes override those of task
Spread(task, changes) ==
    [f \in (DOMAIN task) \cup (DOMAIN changes) |->
        IF f \in DOMAIN changes THEN changes[f] ELSE task[f]]

\* the tail of every mutating handler: saveState({ tasks }); renderTasks(),
\* whose updateProgress(tasksToRender) recomputes progressData
SaveAndRender(ts) ==
    /\ tasks' = ts
    /\ savedTasks' = saveState(ts)
    /\ displayed' = Rendered(ts)
    /\ progressData' = updateProgress(ts)

\* time passes: Date.now() never goes back
ClockAdvance ==
    /\ now < ClockStart + ClockSpan
    /\ now' = now + 1
    /\ UNCHANGED <<currentMode, timeRemaining, isRunning, currentTask,
                   completedPomodoros, timerInterval, activeIntervals,
                   selectedTaskId, tasks, timerTasks, displayed, savedTasks,
                    progressData,
                   tmTasks, tmNotified, tmProjects, tmArgs, tmResult,
                   deletedIds, dailyStats, history, localStorage, smResult,
                   lastOp, ticks>>

\* the task built by addTask(name) as the input handlers call it
NewTask ==
    [id |-> now, completed |-> FALSE, project |-> "Inbox",
     pomodoroCompleted |-> 0, pomodoroTotal |-> 1]

\* addTask(name)
AddTask ==
    /\ Len(tasks) < MaxTasks
    /\ SaveAndRender(Append(tasks, NewTask))
    /\ UNCHANGED timerTasks
    /\ lastOp' = "addTask"
    /\ UNCHANGED <<now, deletedIds>>
    /\ UNCHANGED outsideStore

\* the ids a caller may name: those of the tasks, and one no task has
StoreIdInputs == IdSet(tasks) \cup {NoTask}

\* a toggle that only ever marks the task completed
ToggleCompleted_set(task) == [task EXCEPT !.completed = TRUE]

\* task.completed = !task.completed
ToggleCompleted(task) == [task EXCEPT !.completed = ~task.completed]

\* the task array after toggleTaskCompletion(taskId)
Toggled(ts, taskId) ==
    IF FindTask(ts, taskId) # 0
    THEN [ts EXCEPT ![FindTask(ts, taskId)] = ToggleCompleted(@)]
    ELSE ts

\* the timer's array after the task object at index i of tasks.js was
\* toggled: the timer sees the change if it holds the same object
ToggledInTimer(i) ==
    IF timerTasks.same THEN timerTasks
    ELSE [timerTasks EXCEPT !.list =
              [k \in 1..Len(@) |->
                  IF @[k].obj = i
                  THEN [@[k] EXCEPT !.task = ToggleCompleted(@)]
                  ELSE @[k]]]

\* toggleTaskCompletion(taskId)
ToggleTaskCompletion ==
    \E taskId \in StoreIdInputs :
        /\ IF FindTask(tasks, taskId) # 0
           THEN /\ SaveAndRender(Toggled(tasks, taskId))
                /\ timerTasks' = ToggledInTimer(FindTask(tasks, taskId))
           ELSE UNCHANGED storeVars
        /\ lastOp' = "toggleTaskCompletion"
        /\ UNCHANGED <<now, deletedIds>>
        /\ UNCHANGED outsideStore

\* the patches tried: one per field, the id among them
StorePatches ==
    {[completed |-> TRUE], [project |-> "Inbox"]}
        \cup {[id |-> x] : x \in IdSet(tasks) \cup {now}}

\* the timer's array after tasks[i] = { ...tasks[i], ...updatedFields }:
\* index i of tasks.js holds a new object, with the pomodoroQuantity of the
\* old one
ReplacedInTimer(i) ==
    IF timerTasks.same THEN timerTasks
    ELSE [timerTasks EXCEPT !.list =
              [k \in 1..Len(@) |->
                  IF @[k].obj = i THEN [@[k] EXCEPT !.obj = 0] ELSE @[k]]]

\* updateTask(taskId, updatedFields)
UpdateTask ==
    \E taskId \in StoreIdInputs, updatedFields \in StorePatches :
        /\ IF FindTask(tasks, taskId) # 0
           THEN /\ SaveAndRender([tasks EXCEPT ![FindTask(tasks, taskId)] =
                                   Spread(tasks[FindTask(tasks, taskId)], updatedFields)])
                /\ timerTasks' = ReplacedInTimer(FindTask(tasks, taskId))
           ELSE UNCHANGED storeVars
        /\ lastOp' = "updateTask"
        /\ UNCHANGED <<now, deletedIds>>
        /\ UNCHANGED outsideStore

\* tasks.filter(t => t.id != taskId)
RECURSIVE WithoutId(_, _)
WithoutId(ts, taskId) ==
    IF ts = <<>> THEN <<>>
    ELSE IF Head(ts).id = taskId THEN WithoutId(Tail(ts), taskId)
         ELSE <<Head(ts)>> \o WithoutId(Tail(ts), taskId)

\* the index the task at index i of tasks has in
\* tasks.filter(t => t.id != taskId), 0 if it is not in it
IndexWithoutId(i, taskId) ==
    IF i = 0 \/ tasks[i].id = taskId THEN 0
    ELSE i - Cardinality({j \in 1..i : tasks[j].id = taskId})

\* the timer's array after tasks = tasks.filter(...): tasks.js has a new
\* array, the timer keeps the old one with all its task objects
LeftToTimer(taskId) ==
    IF timerTasks.same
    THEN [same |-> FALSE,
          list |-> [k \in 1..Len(tasks) |->
                       [task |-> tasks[k],
                        obj |-> IndexWithoutId(k, taskId),
                        pq |-> IndexWithoutId(k, taskId)]]]
    ELSE [timerTasks EXCEPT !.list =
              [k \in 1..Len(@) |->
                  [@[k] EXCEPT !.obj = IndexWithoutId(@, taskId),
                               !.pq = IndexWithoutId(@, taskId)]]]

\* deleteTask(taskId)
DeleteTask ==
    \E taskId \in StoreIdInputs :
        /\ SaveAndRender(WithoutId(tasks, taskId))
        /\ timerTasks' = LeftToTimer(taskId)
        /\ lastOp' = "deleteTask"
        /\ UNCHANGED <<now, deletedIds>>
        /\ UNCHANGED outsideStore

\* ------------------------------------------------- tasks.js: TaskManager
\* what no method of TaskManager touches
outsideTaskManager == <<currentMode, timeRemaining, isRunning, currentTask,
                        completedPomodoros, timerInterval, activeIntervals,
                        selectedTaskId, tasks, timerTasks, displayed, savedTasks,
                    progressData,
                        dailyStats, history, localStorage, smResult, ticks>>

\* Priority.HIGHEST, HIGH, MEDIUM, LOW
PriorityHighest == 1
PriorityHigh == 2
PriorityMedium == 3
PriorityLow == 4

\* a dueDate of null (due dates are kept as their calendar day)
NoDate == 0

\* _generateId(): Date.now().toString(36) followed by up to five random
\* base-36 digits; the pair stands for the concatenation
GenerateIds == {<<now, r>> : r \in 1..NumRandom}

\* the taskData objects callers pass to createTask: a project or none, and
\* either no priority and no due date, or high priority and due tomorrow
TaskDataInputs ==
    {[projectId |-> p, priority |-> 0, dueDate |-> NoDate] :
        p \in IdSet(tmProjects) \cup {NoId}}
    \cup {[projectId |-> NoId, priority |-> PriorityHigh,
           dueDate |-> DayOf(now) + 1]}

\* createTask(taskData); a projectId of null is NoId, a missing priority 0
TM_createTask ==
    \E id \in GenerateIds, taskData \in TaskDataInputs :
        /\ Len(tmTasks) < MaxManagerTasks
        /\ tmTasks' = Append(tmTasks,
               [id |-> id, completed |-> FALSE,
                priority |-> IF taskData.priority = 0 THEN PriorityMedium
                             ELSE taskData.priority,
                projectId |-> taskData.projectId,
                dueDate |-> taskData.dueDate,
                subtasks |-> <<>>,
                updatedAt |-> now])
        /\ tmNotified' = {"tasksChanged"}
        /\ tmResult' = "task"
        /\ tmArgs' = <<taskData>>
        /\ lastOp' = "TaskManager.createTask"
        /\ UNCHANGED <<tmProjects, deletedIds, now>>
        /\ UNCHANGED outsideTaskManager

TaskManagerIdInputs == IdSet(tmTasks) \cup {NoId}

TaskManagerPatches ==
    {[completed |-> TRUE]}
        \cup {[projectId |-> p] : p \in IdSet(tmProjects)}
        \cup {[id |-> x] : x \in IdSet(tmTasks)}

\* updateTask(taskId, changes)
TM_updateTask ==
    \E taskId \in TaskManagerIdInputs, changes \in TaskManagerPatches :
        /\ IF FindTask(tmTasks, taskId) # 0
           THEN /\ tmTasks' = [tmTasks EXCEPT ![FindTask(tmTasks, taskId)] =
                      Spread(Spread(tmTasks[FindTask(tmTasks, taskId)], changes),
                             [updatedAt |-> now])]
                /\ tmNotified' = {"tasksChanged"}
                /\ tmResult' = "task"
           ELSE /\ tmNotified' = {}
                /\ tmResult' = "null"
                /\ UNCHANGED tmTasks
        /\ tmArgs' = <<taskId, changes>>
        /\ lastOp' = "TaskManager.updateTask"
        /\ UNCHANGED <<tmProjects, deletedIds, now>>
        /\ UNCHANGED outsideTaskManager

\* a deleteTask that notifies whether or not a task was removed
TM_deleteTask_notifyAlways ==
    \E taskId \in TaskManagerIdInputs :
        /\ tmTasks' = WithoutId(tmTasks, taskId)
        /\ tmNotified' = {"tasksChanged"}
        /\ tmResult' = IF Len(tmTasks') # Len(tmTasks) THEN "true" ELSE "false"
        /\ deletedIds' = deletedIds \cup {taskId}
        /\ tmArgs' = <<taskId>>
        /\ lastOp' = "TaskManager.deleteTask"
        /\ UNCHANGED <<tmProjects, now>>
        /\ UNCHANGED outsideTaskManager

\* deleteTask(taskId)
TM_deleteTask ==
    \E taskId \in TaskManagerIdInputs :
        /\ tmTasks' = WithoutId(tmTasks, taskId)
        /\ IF Len(tmTasks') # Len(tmTasks)
           THEN /\ tmNotified' = {"tasksChanged"}
                /\ tmResult' = "true"
           ELSE /\ tmNotified' = {}
                /\ tmResult' = "false"
        /\ deletedIds' = deletedIds \cup {taskId}
        /\ tmArgs' = <<taskId>>
        /\ lastOp' = "TaskManager.deleteTask"
        /\ UNCHANGED <<tmProjects, now>>
        /\ UNCHANGED outsideTaskManager

\* the subtask ids a caller may name: those of the subtasks of any task,
\* and one no subtask has
SubtaskIdInputs ==
    UNION {IdSet(tmTasks[i].subtasks) : i \in 1..Len(tmTasks)} \cup {NoId}

\* createSubtask(taskId, subtaskData)
TM_createSubtask ==
    \E taskId \in TaskManagerIdInputs, id \in GenerateIds :
        /\ IF FindTask(tmTasks, taskId) # 0
           THEN /\ Len(tmTasks[FindTask(tmTasks, taskId)].subtasks) < MaxSubtasks
                /\ tmTasks' = [tmTasks EXCEPT ![FindTask(tmTasks, taskId)] =
                      [@ EXCEPT !.subtasks =
                                    Append(@, [id |-> id, completed |-> FALSE]),
                                !.updatedAt = now]]
                /\ tmNotified' = {"tasksChanged"}
                /\ tmResult' = "subtask"
           ELSE /\ tmNotified' = {}
                /\ tmResult' = "null"
                /\ UNCHANGED tmTasks
        /\ tmArgs' = <<taskId>>
        /\ lastOp' = "TaskManager.createSubtask"
        /\ UNCHANGED <<tmProjects, deletedIds, now>>
        /\ UNCHANGED outsideTaskManager

\* updateSubtask(taskId, subtaskId, changes) with changes { completed: true }
TM_updateSubtask ==
    \E taskId \in TaskManagerIdInputs, subtaskId \in SubtaskIdInputs :
        LET i == FindTask(tmTasks, taskId)
            k == IF i = 0 THEN 0 ELSE FindTask(tmTasks[i].subtasks, subtaskId)
        IN  /\ IF k # 0
               THEN /\ tmTasks' = [tmTasks EXCEPT ![i] =
                          [@ EXCEPT !.subtasks[k] = Spread(@, [completed |-> TRUE]),
                                    !.updatedAt = now]]
                    /\ tmNotified' = {"tasksChanged"}
                    /\ tmResult' = "subtask"
               ELSE /\ tmNotified' = {}
                    /\ tmResult' = "null"
                    /\ UNCHANGED tmTasks
            /\ tmArgs' = <<taskId, subtaskId>>
            /\ lastOp' = "TaskManager.updateSubtask"
            /\ UNCHANGED <<tmProjects, deletedIds, now>>
            /\ UNCHANGED outsideTaskManager

\* deleteSubtask(taskId, subtaskId)
TM_deleteSubtask ==
    \E taskId \in TaskManagerIdInputs, subtaskId \in SubtaskIdInputs :
        LET i == FindTask(tmTasks, taskId)
            kept == IF i = 0 THEN <<>>
                    ELSE WithoutId(tmTasks[i].subtasks, subtaskId)
        IN  /\ IF i # 0 /\ Len(kept) # Len(tmTasks[i].subtasks)
               THEN /\ tmTasks' = [tmTasks EXCEPT ![i] =
                          [@ EXCEPT !.subtasks = kept, !.updatedAt = now]]
                    /\ tmNotified' = {"tasksChanged"}
                    /\ tmResult' = "true"
               ELSE /\ tmNotified' = {}
                    /\ tmResult' = "false"
                    /\ UNCHANGED tmTasks
            /\ tmArgs' = <<taskId, subtaskId>>
            /\ lastOp' = "TaskManager.deleteSubtask"
            /\ UNCHANGED <<tmProjects, deletedIds, now>>
            /\ UNCHANGED outsideTaskManager

\* createProject(projectData)
TM_createProject ==
    \E id \in GenerateIds :
        /\ Len(tmProjects) < MaxProjects
        /\ tmProjects' = Append(tmProjects, [id |-> id])
        /\ tmNotified' = {"projectsChanged"}
        /\ tmResult' = "project"
        /\ tmArgs' = <<>>
        /\ lastOp' = "TaskManager.createProject"
        /\ UNCHANGED <<tmTasks, deletedIds, now>>
        /\ UNCHANGED outsideTaskManager

\* a deleteProject that deletes the tasks of the project with it
ClearProject_cascade(ts, projectId) ==
    SelectSeq(ts, LAMBDA t : t.projectId # projectId)

\* the forEach of deleteProject: projectId becomes null on the tasks of the
\* project
ClearProject(ts, projectId) ==
    [i \in 1..Len(ts) |->
        IF ts[i].projectId = projectId
        THEN [ts[i] EXCEPT !.projectId = NoId]
        ELSE ts[i]]

\* the project ids a caller may name: those of the projects, and one no
\* project has
ProjectIdInputs == IdSet(tmProjects) \cup {<<NoTask, 1>>}

\* deleteProject(projectId)
TM_deleteProject ==
    \E projectId \in ProjectIdInputs :
        /\ tmProjects' = WithoutId(tmProjects, projectId)
        /\ IF Len(tmProjects') # Len(tmProjects)
           THEN /\ tmTasks' = ClearProject(tmTasks, projectId)
                /\ tmNotified' = {"projectsChanged", "tasksChanged"}
                /\ tmResult' = "true"
           ELSE /\ tmNotified' = {}
                /\ tmResult' = "false"
                /\ UNCHANGED tmTasks
        /\ tmArgs' = <<projectId>>
        /\ lastOp' = "TaskManager.deleteProject"
        /\ UNCHANGED <<deletedIds, now>>
        /\ UNCHANGED outsideTaskManager

\* the read views of a TaskManager
getTasksByProject(projectId) ==
    SelectSeq(tmTasks, LAMBDA t : t.projectId = projectId)

getTodayTasks ==
    SelectSeq(tmTasks, LAMBDA t : t.dueDate # NoDate /\ t.dueDate = DayOf(now))

getTomorrowTasks ==
    SelectSeq(tmTasks,
              LAMBDA t : t.dueDate # NoDate /\ t.dueDate = DayOf(now) + 1)

\* endOfWeek is 7 - getDay() days after today; day d is weekday d % 7
getThisWeekTasks ==
    SelectSeq(tmTasks,
              LAMBDA t : /\ t.dueDate # NoDate
                         /\ t.dueDate >= DayOf(now)
                         /\ t.dueDate <= DayOf(now) + (7 - (DayOf(now) % 7)))

getHighPriorityTasks ==
    SelectSeq(tmTasks,
              LAMBDA t : t.priority = PriorityHighest \/ t.priority = PriorityHigh)

getCompletedTasks == SelectSeq(tmTasks, LAMBDA t : t.completed)

\* taskMap[id]: the last task of the list with that id, 0 if none
LastTask(ts, taskId) ==
    IF \E i \in 1..Len(ts) : ts[i].id = taskId
    THEN CHOOSE i \in 1..Len(ts) :
            /\ ts[i].id = taskId
            /\ \A j \in (i + 1)..Len(ts) : ts[j].id # taskId
    ELSE 0

\* s.filter(x => x is in the set keep)
RECURSIVE FilterIn(_, _)
FilterIn(s, keep) ==
    IF s = <<>> THEN <<>>
    ELSE IF Head(s) \in keep THEN <<Head(s)>> \o FilterIn(Tail(s), keep)
         ELSE FilterIn(Tail(s), keep)

\* the elements of a sequence
Range(s) == {s[i] : i \in 1..Len(s)}

\* a reorder that puts the tasks left out of taskIds in front
Reordered_unorderedFirst(ts, taskIds) ==
    LET known == FilterIn(taskIds, IdSet(ts))
    IN  SelectSeq(ts, LAMBDA t : t.id \notin Range(taskIds))
            \o [k \in 1..Len(known) |-> ts[LastTask(ts, known[k])]]

\* [...orderedTasks, ...unorderedTasks] of reorderTasks
Reordered(ts, taskIds) ==
    LET known == FilterIn(taskIds, IdSet(ts))
    IN  [k \in 1..Len(known) |-> ts[LastTask(ts, known[k])]]
            \o SelectSeq(ts, LAMBDA t : t.id \notin Range(taskIds))

\* the id lists a caller may pass: up to MaxManagerTasks ids, each of a task
\* or of none, repetitions included
TaskIdLists ==
    UNION {[1..n -> TaskManagerIdInputs] : n \in 0..MaxManagerTasks}

\* reorderTasks(taskIds)
TM_reorderTasks ==
    \E taskIds \in TaskIdLists :
        /\ tmTasks' = Reordered(tmTasks, taskIds)
        /\ tmNotified' = {"tasksChanged"}
        /\ tmResult' = "undefined"
        /\ tmArgs' = <<taskIds>>
        /\ lastOp' = "TaskManager.reorderTasks"
        /\ UNCHANGED <<tmProjects, deletedIds, now>>
        /\ UNCHANGED outsideTaskManager

\* --------------------------------------- progress.js: ProgressTracker
\* what no method of ProgressTracker touches
outsideTracker == <<currentMode, timeRemaining, isRunning, currentTask,
                    completedPomodoros, timerInterval, activeIntervals,
                    selectedTaskId, tasks, timerTasks, displayed, savedTasks,
                    progressData,
                    tmTasks, tmNotified, tmProjects, tmArgs, tmResult,
                    deletedIds, localStorage, smResult, now, ticks>>

\* an archive that stores the aggregate of the new day
Archive_reset(h, stats) ==
    [d \in (DOMAIN h) \cup {stats.date} |->
        IF d = stats.date THEN ZeroStats(stats.date) ELSE h[d]]

\* this.history[stats.date] = { ...stats }
Archive(h, stats) ==
    [d \in (DOMAIN h) \cup {stats.date} |->
        IF d = stats.date THEN stats ELSE h[d]]

\* updateDailyStats(stats): the argument was built by the caller from the
\* aggregate as it was before the date check
updateDailyStats(stats) ==
    IF DayOf(now) # dailyStats.date
    THEN /\ history' = Archive(history, dailyStats)
         /\ dailyStats' = Spread(ZeroStats(DayOf(now)), stats)
    ELSE /\ history' = history
         /\ dailyStats' = Spread(dailyStats, stats)

\* recordTaskCompleted()
RecordTaskCompleted ==
    /\ dailyStats.completedTasks < MaxCount
    /\ updateDailyStats([completedTasks |-> dailyStats.completedTasks + 1])
    /\ lastOp' = "recordTaskCompleted"
    /\ UNCHANGED outsideTracker

\* recordTaskPlanned()
RecordTaskPlanned ==
    /\ dailyStats.plannedTasks < MaxCount
    /\ updateDailyStats([plannedTasks |-> dailyStats.plannedTasks + 1])
    /\ lastOp' = "recordTaskPlanned"
    /\ UNCHANGED outsideTracker

\* the length of a focus session in minutes
PomodoroMinutes == PomodoroSeconds \div 60

\* recordPomodoroCompleted(minutes) with the minutes of a focus session
RecordPomodoroCompleted ==
    /\ dailyStats.completedPomodoros < MaxCount
    /\ updateDailyStats(
           [completedPomodoros |-> dailyStats.completedPomodoros + 1,
            totalFocusTime |-> dailyStats.totalFocusTime + PomodoroMinutes])
    /\ lastOp' = "recordPomodoroCompleted"
    /\ UNCHANGED outsideTracker

\* recordPomodorosPlanned(): count takes its default, 1
RecordPomodorosPlanned ==
    /\ dailyStats.plannedPomodoros < MaxCount
    /\ updateDailyStats([plannedPomodoros |-> dailyStats.plannedPomodoros + 1])
    /\ lastOp' = "recordPomodorosPlanned"
    /\ UNCHANGED outsideTracker

\* recordPomodorosPlanned(count) with a count of 2 or more
RecordPomodorosPlannedCount ==
    \E count \in 2..MaxPlanned :
        /\ dailyStats.plannedPomodoros + count <= MaxPlanned
        /\ updateDailyStats(
               [plannedPomodoros |-> dailyStats.plannedPomodoros + count])
        /\ lastOp' = "recordPomodorosPlanned"
        /\ UNCHANGED outsideTracker

\* null, as getHistoricalProgress returns it (no aggregate has the date
\* NoDate)
NoProgress == ZeroStats(NoDate)

\* getHistoricalProgress(date): this.history[date] || null
getHistoricalProgress(date) ==
    IF date \in DOMAIN history THEN history[date] ELSE NoProgress

\* the zones the browser may run in: local time minus UTC, in instants of
\* the clock
TimeZoneOffsets == {-1, 0, 1}

\* new Date("YYYY-MM-DD"): a date-only text is midnight UTC of that day;
\* the result is that instant as the local clock of the zone reads it
ParseDate(day, tz) == day * ClockPerDay + tz

\* the while loop of getProgressRange: the days _formatDate names while
\* currentDate <= end, currentDate moving on by setDate(getDate() + 1)
RECURSIVE RangeDays(_, _, _)
RangeDays(currentDate, end, days) ==
    IF currentDate <= end
    THEN RangeDays(currentDate + ClockPerDay, end,
                   days \cup {DayOf(currentDate)})
    ELSE days

\* getProgressRange(startDate, endDate) in a zone tz ahead of UTC
getProgressRange(startDate, endDate, tz) ==
    [d \in RangeDays(ParseDate(startDate, tz), ParseDate(endDate, tz), {}) |->
        getHistoricalProgress(d)]

\* IEEE 754 double arithmetic, as far as getProgressPercentage uses it. A
\* natural number is its sequence of base-2^15 limbs, least significant
\* first, without high zero limbs; a double is [m, e] with value m * 2^e.
DoubleBits == 53
LimbBits == 15
Base == 2^LimbBits
\* limbs of quotient a division produces below the point before rounding
QuotientLimbs == 5

Limb(x, i) == IF i \in 1..Len(x) THEN x[i] ELSE 0

TrimLimbs(x) ==
    LET used == {i \in 1..Len(x) : x[i] # 0}
    IN  IF used = {} THEN <<>>
        ELSE SubSeq(x, 1, CHOOSE i \in used : \A j \in used : j <= i)

\* the number of bits of x
BitLen(x) ==
    IF x = <<>> THEN 0
    ELSE (Len(x) - 1) * LimbBits
         + (CHOOSE k \in 1..LimbBits :
                2^(k - 1) <= x[Len(x)] /\ x[Len(x)] < 2^k)

\* bit i of x, bit 0 the lowest
Bit(x, i) == (Limb(x, (i \div LimbBits) + 1) \div 2^(i % LimbBits)) % 2

\* some bit of x below bit i is set
LowBitsSet(x, i) ==
    \/ \E j \in 1..(i \div LimbBits) : Limb(x, j) # 0
    \/ Limb(x, (i \div LimbBits) + 1) % 2^(i % LimbBits) # 0

\* x \div 2^d
ShiftRight(x, d) ==
    LET q == d \div LimbBits
        s == d % LimbBits
    IN  TrimLimbs([k \in 1..(Len(x) - q) |->
                      (x[k + q] \div 2^s)
                      + (Limb(x, k + q + 1) % 2^s) * 2^(LimbBits - s)])

\* x * 2^d
ShiftLeft(x, d) ==
    LET q == d \div LimbBits
        s == d % LimbBits
    IN  TrimLimbs([k \in 1..q |-> 0]
                  \o [k \in 1..(Len(x) + 1) |->
                         ((Limb(x, k) * 2^s) % Base)
                         + (Limb(x, k - 1) \div 2^(LimbBits - s))])

\* x + 1
Increment(x) ==
    LET t == CHOOSE t \in 0..Len(x) :
                 /\ \A j \in 1..t : x[j] = Base - 1
                 /\ t = Len(x) \/ x[t + 1] # Base - 1
    IN  [k \in 1..(IF t = Len(x) THEN Len(x) + 1 ELSE Len(x)) |->
            IF k <= t THEN 0
            ELSE IF k = t + 1 THEN Limb(x, k) + 1
            ELSE x[k]]

\* x + y + carry
RECURSIVE AddLimbs(_, _, _)
AddLimbs(x, y, carry) ==
    IF x = <<>> /\ y = <<>>
    THEN IF carry = 0 THEN <<>> ELSE <<carry>>
    ELSE LET sum == Limb(x, 1) + Limb(y, 1) + carry
         IN  <<sum % Base>> \o AddLimbs(IF x = <<>> THEN <<>> ELSE Tail(x),
                                        IF y = <<>> THEN <<>> ELSE Tail(y),
                                        sum \div Base)

\* x * c + carry for a small c
RECURSIVE MulLimbs(_, _, _)
MulLimbs(x, c, carry) ==
    IF x = <<>>
    THEN IF carry = 0 THEN <<>> ELSE <<carry>>
    ELSE <<(Head(x) * c + carry) % Base>>
             \o MulLimbs(Tail(x), c, (Head(x) * c + carry) \div Base)

\* m * 2^e (plus a nonzero rest below the last bit if sticky) rounded to
\* the nearest double, ties to even
RoundDouble(m, e, sticky) ==
    LET d == BitLen(m) - DoubleBits
    IN  IF d <= 0 THEN [m |-> m, e |-> e]
        ELSE LET kept == ShiftRight(m, d)
                 low == sticky \/ LowBitsSet(m, d - 1)
                 up == Bit(m, d - 1) = 1 /\ (low \/ Bit(kept, 0) = 1)
             IN  [m |-> IF up THEN Increment(kept) ELSE kept, e |-> e + d]

\* the long division behind a / b: k more quotient limbs below those of acc
RECURSIVE DivStep(_, _, _, _)
DivStep(r, b, k, acc) ==
    IF k = 0 THEN [m |-> acc, rem |-> r]
    ELSE DivStep((r * Base) % b, b, k - 1, <<(r * Base) \div b>> \o acc)

\* a / b for integers a >= 0, b > 0 below 2^LimbBits
DivDouble(a, b) ==
    LET q == DivStep(a % b, b, QuotientLimbs, <<a \div b>>)
    IN  RoundDouble(TrimLimbs(q.m), 0 - QuotientLimbs * LimbBits, q.rem # 0)

\* x * 100
Times100(x) == RoundDouble(MulLimbs(x.m, 100, 0), x.e, FALSE)

\* x * 0.5
TimesHalf(x) == [x EXCEPT !.e = @ - 1]

\* x + y
AddDouble(x, y) ==
    IF x.m = <<>> THEN y
    ELSE IF y.m = <<>> THEN x
    ELSE LET e == IF x.e < y.e THEN x.e ELSE y.e
         IN  RoundDouble(AddLimbs(ShiftLeft(x.m, x.e - e),
                                  ShiftLeft(y.m, y.e - e), 0),
                         e, FALSE)

\* Math.round(x) for x below 2^30: the nearest integer, a half rounded up
MathRound(x) ==
    IF x.m = <<>> THEN 0
    ELSE IF x.e >= 0
    THEN LET n == ShiftLeft(x.m, x.e) IN Limb(n, 1) + Limb(n, 2) * Base
    ELSE LET n == ShiftRight(x.m, 0 - x.e)
         IN  Limb(n, 1) + Limb(n, 2) * Base + Bit(x.m, (0 - x.e) - 1)

\* the double 0
NatDouble0 == [m |-> <<>>, e |-> 0]

\* a weighted average that halves a percentage also when it stands alone
WeightedPercentage_halved(stats) ==
    LET taskPercentage ==
            IF stats.plannedTasks > 0
            THEN Times100(DivDouble(stats.completedTasks, stats.plannedTasks))
            ELSE NatDouble0
        pomodoroPercentage ==
            IF stats.plannedPomodoros > 0
            THEN Times100(DivDouble(stats.completedPomodoros,
                                    stats.plannedPomodoros))
            ELSE NatDouble0
    IN  AddDouble(TimesHalf(taskPercentage), TimesHalf(pomodoroPercentage))

\* weightedPercentage of getProgressPercentage
WeightedPercentage(stats) ==
    LET taskPercentage ==
            IF stats.plannedTasks > 0
            THEN Times100(DivDouble(stats.completedTasks, stats.plannedTasks))
            ELSE NatDouble0
        pomodoroPercentage ==
            IF stats.plannedPomodoros > 0
            THEN Times100(DivDouble(stats.completedPomodoros,
                                    stats.plannedPomodoros))
            ELSE NatDouble0
    IN  IF stats.plannedTasks = 0 THEN pomodoroPercentage
        ELSE IF stats.plannedPomodoros = 0 THEN taskPercentage
        ELSE AddDouble(TimesHalf(taskPercentage), TimesHalf(pomodoroPercentage))

\* getProgressPercentage() of the aggregate stats
getProgressPercentage(stats) ==
    IF stats.plannedTasks = 0 /\ stats.plannedPomodoros = 0 THEN 0
    ELSE LET rounded == MathRound(WeightedPercentage(stats))
         IN  IF rounded < 100 THEN rounded ELSE 100

StoreNext ==
    \/ ClockAdvance
    \/ AddTask
    \/ ToggleTaskCompletion
    \/ UpdateTask

\* the functional task module, driven by its callers while time passes
SpecStore == Init /\ [][StoreNext]_vars

TaskManagerNext ==
    \/ ClockAdvance
    \/ TM_createTask
    \/ TM_updateTask

\* a TaskManager, driven by its callers while time passes
SpecTaskManager == Init /\ [][TaskManagerNext]_vars

\* task creations alone, in both stores, while time passes
CreationNext ==
    \/ ClockAdvance
    \/ AddTask
    \/ TM_createTask

SpecCreation == Init /\ [][CreationNext]_vars

\* a TaskManager whose callers create and delete tasks while time passes
DeletionNext ==
    \/ ClockAdvance
    \/ TM_createTask
    \/ TM_deleteTask

SpecDeletion == Init /\ [][DeletionNext]_vars

\* a TaskManager whose callers create tasks and subtasks and then name
\* tasks and subtasks, present or absent
LookupNext ==
    \/ TM_createTask
    \/ TM_createSubtask
    \/ TM_updateTask
    \/ TM_deleteTask
    \/ TM_updateSubtask
    \/ TM_deleteSubtask

SpecLookup == Init /\ [][LookupNext]_vars

\* a TaskManager whose callers create projects and tasks and delete
\* projects
ProjectsNext ==
    \/ TM_createProject
    \/ TM_createTask
    \/ TM_deleteProject

SpecProjects == Init /\ [][ProjectsNext]_vars

\* a TaskManager whose callers create tasks and reorder them
ReorderNext ==
    \/ TM_createTask
    \/ TM_reorderTasks

SpecReorder == Init /\ [][ReorderNext]_vars

\* a TaskManager whose callers create projects and tasks in them and
\* reorder the tasks
ProjectReorderNext ==
    \/ TM_createProject
    \/ TM_createTask
    \/ TM_reorderTasks

SpecProjectReorder == Init /\ [][ProjectReorderNext]_vars

\* a ProgressTracker, driven by its callers while the days pass
ProgressNext ==
    \/ ClockAdvance
    \/ RecordTaskCompleted
    \/ RecordTaskPlanned
    \/ RecordPomodoroCompleted
    \/ RecordPomodorosPlanned

SpecProgress == Init /\ [][ProgressNext]_vars

\* a ProgressTracker within one day, pomodoros also planned in bulk
ProgressDayNext ==
    \/ RecordTaskCompleted
    \/ RecordTaskPlanned
    \/ RecordPomodoroCompleted
    \/ RecordPomodorosPlanned
    \/ RecordPomodorosPlannedCount

SpecProgressDay == Init /\ [][ProgressDayNext]_vars

\* a TaskManager whose callers create projects and tasks and delete
\* projects while time passes
StampNext ==
    \/ ClockAdvance
    \/ TM_createProject
    \/ TM_createTask
    \/ TM_deleteProject

SpecStamp == Init /\ [][StampNext]_vars

\* --------------------------------------------------------- StorageManager
\* everything but the storage, its last return value and lastOp
outsideStorage == <<currentMode, timeRemaining, isRunning, currentTask,
                    completedPomodoros, timerInterval, activeIntervals,
                    selectedTaskId, tasks, timerTasks, displayed, savedTasks,
                    progressData,
                    tmTasks, tmNotified, tmProjects, tmArgs, tmResult,
                    deletedIds, dailyStats, history, now, ticks>>

\* a stored text that is no JSON: chars "corrupt" for a damaged text,
\* "empty" for the empty string
BadText(chars) == [chars |-> chars, of |-> Undefined]

\* a serialisation that writes every list inside a list element as []
JSONstringify_flat(data) ==
    IF data.kind = "array"
    THEN [chars |-> "json",
          of |-> Arr([i \in DOMAIN data.val |->
                        IF "subtasks" \in DOMAIN data.val[i]
                        THEN [data.val[i] EXCEPT !.subtasks = <<>>]
                        ELSE data.val[i]])]
    ELSE [chars |-> "json", of |-> data]

\* the text localStorage.setItem stores for JSON.stringify(data): the JSON
\* text of the value, except that JSON.stringify(undefined) is undefined,
\* which setItem stores as the text 'undefined'
JSONstringify(data) ==
    IF data.kind = "undefined" THEN BadText("undefined")
    ELSE [chars |-> "json", of |-> data]

\* JSON.parse(text): the value a JSON text denotes, a SyntaxError for any
\* other text
JSONparse(text) == IF text.chars = "json" THEN text.of ELSE Thrown

\* the truth value of what getItem returns: null and '' are falsy
HasText(item) == item.chars \notin {"none", "empty"}

\* save(key, data) on the storage items: setItem throws when the quota is
\* exceeded (full), the exception is caught and nothing is stored
save(items, key, data, full) ==
    IF full THEN items ELSE [items EXCEPT ![key] = JSONstringify(data)]

\* what save returns
saved(full) == Bool(~full)

\* a load that lets the SyntaxError of JSON.parse escape
load_uncaught(items, key, defaultValue) ==
    IF HasText(items[key]) THEN JSONparse(items[key]) ELSE defaultValue

\* load(key, defaultValue): data ? JSON.parse(data) : defaultValue, and
\* defaultValue when that throws
load(items, key, defaultValue) ==
    IF HasText(items[key])
    THEN IF JSONparse(items[key]).kind = "exception" THEN defaultValue
         ELSE JSONparse(items[key])
    ELSE defaultValue

\* the value of one call of a StorageManager method
StorageCall(op, items, result) ==
    /\ localStorage' = items
    /\ smResult' = result
    /\ lastOp' = op
    /\ UNCHANGED outsideStorage

\* the default of loadTasks and of loadProjects: []
EmptyList == Arr(<<>>)
\* the default of loadHistory: {}
EmptyHistory == Map([d \in {} |-> ZeroStats(d)])
\* DEFAULT_SETTINGS, the default the application supplies to
\* loadTimerSettings
TimerSettingsDefault ==
    Rec([pomodoro |-> PomodoroSeconds, shortBreak |-> ShortBreakSeconds,
         longBreak |-> LongBreakSeconds,
         longBreakInterval |-> longBreakInterval])
\* timer settings a user has changed
TimerSettingsChanged ==
    Rec([pomodoro |-> PomodoroSeconds + 300, shortBreak |-> ShortBreakSeconds,
         longBreak |-> LongBreakSeconds,
         longBreakInterval |-> longBreakInterval])
\* getProgress() of the aggregate stats
getProgress(stats) ==
    Spread(stats, [percentage |-> getProgressPercentage(stats)])
\* the default a caller supplies to loadAppSettings, and settings saved
AppSettingsDefault == Rec([theme |-> "light"])
AppSettingsChanged == Rec([theme |-> "dark"])

\* saveTasks(tasks) with the collection of the TaskManager, as
\* onTasksChanged calls it
SM_saveTasks ==
    \E full \in BOOLEAN :
        StorageCall("StorageManager.saveTasks",
                    save(localStorage, "tasks", Arr(tmTasks), full),
                    saved(full))

\* loadTasks()
SM_loadTasks ==
    StorageCall("StorageManager.loadTasks", localStorage,
                load(localStorage, "tasks", EmptyList))

\* saveProjects(projects) with the projects of the TaskManager
SM_saveProjects ==
    \E full \in BOOLEAN :
        StorageCall("StorageManager.saveProjects",
                    save(localStorage, "projects", Arr(tmProjects), full),
                    saved(full))

\* loadProjects()
SM_loadProjects ==
    StorageCall("StorageManager.loadProjects", localStorage,
                load(localStorage, "projects", EmptyList))

\* saveTimerSettings(settings)
SM_saveTimerSettings ==
    \E full \in BOOLEAN :
        StorageCall("StorageManager.saveTimerSettings",
                    save(localStorage, "timerSettings", TimerSettingsChanged,
                         full),
                    saved(full))

\* loadTimerSettings(DEFAULT_SETTINGS)
SM_loadTimerSettings ==
    StorageCall("StorageManager.loadTimerSettings", localStorage,
                load(localStorage, "timerSettings", TimerSettingsDefault))

\* saveDailyStats(progress) with the progress of the tracker
SM_saveDailyStats ==
    \E full \in BOOLEAN :
        StorageCall("StorageManager.saveDailyStats",
                    save(localStorage, "dailyStats",
                         Rec(getProgress(dailyStats)), full),
                    saved(full))

\* loadDailyStats(progressTracker.dailyStats)
SM_loadDailyStats ==
    StorageCall("StorageManager.loadDailyStats", localStorage,
                load(localStorage, "dailyStats", Rec(dailyStats)))

\* saveHistory(history) with the archive of the tracker
SM_saveHistory ==
    \E full \in BOOLEAN :
        StorageCall("StorageManager.saveHistory",
                    save(localStorage, "history", Map(history), full),
                    saved(full))

\* loadHistory()
SM_loadHistory ==
    StorageCall("StorageManager.loadHistory", localStorage,
                load(localStorage, "history", EmptyHistory))

\* saveAppSettings(settings)
SM_saveAppSettings ==
    \E full \in BOOLEAN :
        StorageCall("StorageManager.saveAppSettings",
                    save(localStorage, "appSettings", AppSettingsChanged,
                         full),
                    saved(full))

\* loadAppSettings(defaultSettings)
SM_loadAppSettings ==
    StorageCall("StorageManager.loadAppSettings", localStorage,
                load(localStorage, "appSettings", AppSettingsDefault))

\* clearAllData(): remove(key) for every key
SM_clearAllData ==
    StorageCall("StorageManager.clearAllData",
                [key \in StorageKeys |-> NoItem], Bool(TRUE))

\* something other than the StorageManager writes a text that is no JSON
\* under one of the keys
StorageCorrupted ==
    \E key \in StorageKeys, chars \in {"corrupt", "empty"} :
        /\ localStorage' = [localStorage EXCEPT ![key] = BadText(chars)]
        /\ lastOp' = "storageCorrupted"
        /\ UNCHANGED smResult
        /\ UNCHANGED outsideStorage

\* !!value
Truthy(value) ==
    /\ value.kind \notin {"null", "undefined"}
    /\ value.kind = "string" => value.val # ""
    /\ value.kind = "boolean" => value.val

\* typeof value === 'object'
TypeofObject(value) == value.kind \in {"array", "record", "mapping", "null"}

\* Array.isArray(value)
ArrayIsArray(value) == value.kind = "array"

\* data[key]
Field(data, key) ==
    IF data.kind = "record" /\ key \in DOMAIN data.val THEN data.val[key]
    ELSE Undefined

\* the test importData makes before it saves the value of a domain
Imported(key, value) ==
    IF key \in {"tasks", "projects"} THEN ArrayIsArray(value)
    ELSE Truthy(value) /\ TypeofObject(value)

\* the storage items after importData(data); full[key] tells whether
\* setItem of that key exceeds the quota
importData(items, data, full) ==
    IF ~Truthy(data) \/ ~TypeofObject(data) THEN items
    ELSE [key \in StorageKeys |->
             IF Imported(key, Field(data, key))
             THEN save(items, key, Field(data, key), full[key])[key]
             ELSE items[key]]

\* a backup with a well-formed value for every domain
Backup ==
    [tasks |-> Arr(tmTasks), projects |-> Arr(tmProjects),
     timerSettings |-> TimerSettingsChanged,
     dailyStats |-> Rec(getProgress(dailyStats)),
     history |-> Map(history), appSettings |-> AppSettingsChanged]

\* values of the wrong shape for a domain: a list where a mapping is
\* expected, a mapping where a list is expected, and null, a string and
\* nothing at all for either
WrongShapes(key) ==
    {Null, Str("text"), Undefined}
        \cup (IF key \in {"tasks", "projects"} THEN {AppSettingsDefault}
              ELSE {EmptyList})

\* the backups handed to importData: the well-formed one, those with one
\* domain of the wrong shape, and values that are no backup at all
ImportInputs ==
    {Rec(Backup)}
        \cup UNION {{Rec([Backup EXCEPT ![key] = wrong]) :
                        wrong \in WrongShapes(key)} : key \in StorageKeys}
        \cup {Null, Str("text")}

\* importData(data)
SM_importData ==
    \E data \in ImportInputs, full \in [StorageKeys -> BOOLEAN] :
        StorageCall("StorageManager.importData",
                    importData(localStorage, data, full),
                    Bool(Truthy(data) /\ TypeofObject(data)))

\* the saves and loads of the StorageManager, called in any order on a
\* storage that others may damage
StorageNext ==
    \/ SM_saveTasks
    \/ SM_loadTasks
    \/ SM_saveProjects
    \/ SM_loadProjects
    \/ SM_saveTimerSettings
    \/ SM_loadTimerSettings
    \/ SM_saveDailyStats
    \/ SM_loadDailyStats
    \/ SM_saveHistory
    \/ SM_loadHistory
    \/ SM_saveAppSettings
    \/ SM_loadAppSettings
    \/ SM_clearAllData
    \/ StorageCorrupted

SpecStorage == Init /\ [][StorageNext]_vars

\* backups imported into a storage that is cleared now and then
ImportNext ==
    \/ SM_importData
    \/ SM_clearAllData
    \/ SM_loadTimerSettings

SpecImport == Init /\ [][ImportNext]_vars

\* a TaskManager whose callers create tasks and subtasks, with the
\* collection saved and loaded in between
RoundTripNext ==
    \/ TM_createTask
    \/ TM_createSubtask
    \/ SM_saveTasks
    \/ SM_loadTasks

SpecRoundTrip == Init /\ [][RoundTripNext]_vars

\* ----------------------------------------------------------- FocusToDoApp
\* handleTimerComplete(data) for a focus session:
\* progressTracker.recordPomodoroCompleted(data.duration), whose
\* onProgressChanged callback is StorageManager.saveDailyStats(progress)
App_handleTimerComplete ==
    \E full \in BOOLEAN :
        /\ dailyStats.completedPomodoros < MaxCount
        /\ updateDailyStats(
               [completedPomodoros |-> dailyStats.completedPomodoros + 1,
                totalFocusTime |-> dailyStats.totalFocusTime + PomodoroMinutes])
        /\ localStorage' = save(localStorage, "dailyStats",
                                Rec(getProgress(dailyStats')), full)
        /\ smResult' = saved(full)
        /\ lastOp' = "handleTimerComplete"
        /\ UNCHANGED <<currentMode, timeRemaining, isRunning, currentTask,
                       completedPomodoros, timerInterval, activeIntervals,
                       selectedTaskId, tasks, timerTasks, displayed, savedTasks,
                    progressData,
                       tmTasks, tmNotified, tmProjects, tmArgs, tmResult,
                       deletedIds, now, ticks>>

\* { ...stats, ...loaded } for whatever loadDailyStats returned: a value
\* without named fields adds nothing
SpreadLoaded(stats, loaded) ==
    IF loaded.kind = "record" THEN Spread(stats, loaded.val) ELSE stats

\* the page is loaded again: new FocusToDoApp() builds a new TaskManager and
\* a new ProgressTracker, and loadInitialData fills them from the storage;
\* updateDailyStats(dailyStats) saves the progress through onProgressChanged
App_reload ==
    \E full \in BOOLEAN :
        LET loaded == load(localStorage, "dailyStats",
                           Rec(ZeroStats(DayOf(now))))
            stats == SpreadLoaded(ZeroStats(DayOf(now)), loaded)
        IN  /\ tmTasks' = load(localStorage, "tasks", EmptyList).val
            /\ tmProjects' = load(localStorage, "projects", EmptyList).val
            /\ tmNotified' = {}
            /\ tmArgs' = <<>>
            /\ tmResult' = "none"
            /\ dailyStats' = stats
            /\ localStorage' = save(localStorage, "dailyStats",
                                    Rec(getProgress(stats)), full)
            /\ history' = load(localStorage', "history", EmptyHistory).val
            /\ smResult' = load(localStorage', "history", EmptyHistory)
            /\ lastOp' = "FocusToDoApp"
            /\ UNCHANGED <<currentMode, timeRemaining, isRunning, currentTask,
                           completedPomodoros, timerInterval, activeIntervals,
                           selectedTaskId, tasks, timerTasks, displayed, savedTasks,
                    progressData,
                           deletedIds, now, ticks>>

\* the application over the days: focus sessions complete, the page is
\* loaded again
AppNext ==
    \/ ClockAdvance
    \/ App_handleTimerComplete
    \/ App_reload

SpecApp == Init /\ [][AppNext]_vars

\* ------------------------------------------- tasks.js: filters, reordering
\* the lists of the sidebar: 'All', 'Completed', 'Tasks' (the open tasks),
\* and the name of a project
Filters == {"All", "Completed", "Tasks", "Work", "Inbox"}

\* filteredTasks of filterTasks(filter)
Filtered(ts, filter) ==
    CASE filter = "All"       -> ts
      [] filter = "Completed" -> SelectSeq(ts, LAMBDA t : t.completed)
      [] filter = "Tasks"     -> SelectSeq(ts, LAMBDA t : ~t.completed)
      [] OTHER                -> SelectSeq(ts, LAMBDA t : t.project = filter)

\* filterTasks(filter): renderTasks(filteredTasks), whose
\* updateProgress(tasksToRender) computes progressData from the filtered list
FilterTasks ==
    \E filter \in Filters :
        /\ displayed' = Rendered(Filtered(tasks, filter))
        /\ progressData' = updateProgress(Filtered(tasks, filter))
        /\ lastOp' = "filterTasks"
        /\ UNCHANGED <<tasks, savedTasks, timerTasks, now, deletedIds>>
        /\ UNCHANGED outsideStore

\* list.splice(fromIndex, 1) followed by list.splice(toIndex, 0, moved),
\* with the positions counted from 1
Moved(list, from, to) ==
    LET rest == SubSeq(list, 1, from - 1) \o SubSeq(list, from + 1, Len(list))
    IN  SubSeq(rest, 1, to - 1) \o <<list[from]>> \o SubSeq(rest, to, Len(rest))

\* the elements of list that belong to project, in order
OfProject(list, project) == SelectSeq(list, LAMBDA t : t.project = project)

\* list with the elements of project replaced, in order, by those of
\* Moved(OfProject(list, project), from, to); the other elements stay
MovedInProject(list, project, from, to) ==
    LET moved == Moved(OfProject(list, project), from, to)
    IN  [i \in 1..Len(list) |->
            IF list[i].project = project
            THEN moved[Cardinality({j \in 1..i : list[j].project = project})]
            ELSE list[i]]

\* for every index of tasks after reorderTasks(fromIndex, toIndex, project)
\* the index the task had before
ReorderedFrom(from, to, project) ==
    MovedInProject([i \in 1..Len(tasks) |->
                       [at |-> i, project |-> tasks[i].project]],
                   project, from, to)

\* the index a task at index i (0: none) has after the reordering
IndexReordered(i, from, to, project) ==
    IF i = 0 THEN 0
    ELSE CHOOSE n \in 1..Len(tasks) :
             ReorderedFrom(from, to, project)[n].at = i

\* the timer's array after reorderTasks moved the task objects inside the
\* array of tasks.js
ReorderedInTimer(from, to, project) ==
    IF timerTasks.same THEN timerTasks
    ELSE [timerTasks EXCEPT !.list =
              [k \in 1..Len(@) |->
                  [@[k] EXCEPT
                      !.obj = IndexReordered(@, from, to, project),
                      !.pq = IndexReordered(@, from, to, project)]]]

\* the drop handler of a task element: a dragged task element is dropped
\* onto another one of the same '.tasks' container; the element is moved
\* inside the container and reorderTasks(fromIndex, toIndex, project) moves
\* a task of the project in tasks and saves the list
DropOnTask ==
    \E project \in {displayed[i].project : i \in 1..Len(displayed)} :
        \E from, to \in 1..Len(OfProject(displayed, project)) :
            /\ from # to
            /\ displayed' = MovedInProject(displayed, project, from, to)
            /\ tasks' = MovedInProject(tasks, project, from, to)
            /\ savedTasks' = saveState(tasks')
            /\ timerTasks' = ReorderedInTimer(from, to, project)
            /\ lastOp' = "drop"
            /\ UNCHANGED <<progressData, now, deletedIds>>
            /\ UNCHANGED outsideStore

\* the task list under its filters: tasks are added, completed and edited,
\* lists are picked in the sidebar and tasks are dragged
ViewNext ==
    \/ ClockAdvance
    \/ AddTask
    \/ ToggleTaskCompletion
    \/ UpdateTask
    \/ FilterTasks
    \/ DropOnTask

SpecView == Init /\ [][ViewNext]_vars

\* tasks are deleted while the timer runs sessions for the task that is
\* selected
SharedNext ==
    \/ DeleteTask
    \/ SetSelectedTaskId
    \/ ClickPomodoroQuantity
    \/ TickTimer

SpecShared == Init /\ [][SharedNext]_vars

\* ---------------------------------------------------------------- claims
\* the operations of timer.js, as recorded in lastOp
TimerOps == {"start", "resume", "pause", "tick", "focusCompleted",
             "breakCompleted", "reset", "startPomodoro",
             "setSelectedTaskId"}

\* no two tasks of the list have the same id
IdsDistinct(ts) ==
    \A i, j \in 1..Len(ts) : i # j => ts[i].id # ts[j].id

\* C1: from the initial focus state (not running, 1500 s), start and then
\* 1500 ticks have completed the focus session exactly once: the mode is
\* shortBreak, one session is counted and the remaining time is the
\* short-break duration.
C1_CompletedAfter1500Ticks ==
    ticks = PomodoroSeconds =>
        /\ completedPomodoros = 1
        /\ currentMode = "shortBreak"
        /\ timeRemaining = ShortBreakSeconds

\* C2: right after every focus completion the mode is longBreak exactly
\* when the incremented counter is a multiple of longBreakInterval, and
\* shortBreak otherwise; completions 1-3 give shortBreak, the 4th longBreak.
C2_LongBreakCadence ==
    lastOp = "focusCompleted" =>
        /\ completedPomodoros >= 1
        /\ currentMode = IF completedPomodoros % longBreakInterval = 0
                         THEN "longBreak" ELSE "shortBreak"
        /\ completedPomodoros \in 1..3 => currentMode = "shortBreak"
        /\ completedPomodoros = 4 => currentMode = "longBreak"

\* C2 witness: the 4th focus completion has just selected the long break.
C2_FourthCompletion ==
    /\ lastOp = "focusCompleted"
    /\ completedPomodoros = 4
    /\ currentMode = "longBreak"

\* C3: starting while already running is a no-op: at most one tick source
\* is ever scheduled, so the countdown loses at most one second per second.
C3_SingleTickSource == activeIntervals <= 1

\* C4: whenever the timer is not running no tick source is scheduled, so
\* no tick can fire until the next start.
C4_NoTickWhileNotRunning == ~isRunning => activeIntervals = 0

\* C5: a pause, and a start that directly follows a pause, each leave the
\* remaining time, the mode and the completed-session count as they were,
\* so the countdown resumes from the remaining time at the pause.
C5_PauseStartKeepsTime ==
    [][lastOp' \in {"pause", "resume"} =>
          /\ timeRemaining' = timeRemaining
          /\ currentMode' = currentMode
          /\ completedPomodoros' = completedPomodoros]_vars

\* C5 witness: a countdown resumed in the middle of an interval.
C5_ResumedMidway ==
    /\ lastOp = "resume"
    /\ isRunning
    /\ timeRemaining > 0
    /\ timeRemaining < DEFAULT_SETTINGS(currentMode)

\* C6: the step that completes a shortBreak or longBreak returns the mode
\* to pomodoro, reloads the focus duration and leaves the completed-session
\* counter alone.
C6_BreakCompletion ==
    [][lastOp' = "breakCompleted" /\ vars' # vars =>
          /\ currentMode \in {"shortBreak", "longBreak"}
          /\ currentMode' = "pomodoro"
          /\ timeRemaining' = PomodoroSeconds
          /\ completedPomodoros' = completedPomodoros]_vars

\* C6 witness: the long break after the 4th session has just completed.
C6_LongBreakCompleted ==
    /\ lastOp = "breakCompleted"
    /\ completedPomodoros = longBreakInterval
    /\ currentMode = "pomodoro"

\* C7: the completed-session counter grows by exactly 1 in a focus
\* completion and stays as it is in every other step.
C7_CounterMonotone ==
    [][IF lastOp' = "focusCompleted" /\ vars' # vars
       THEN completedPomodoros' = completedPomodoros + 1
       ELSE completedPomodoros' = completedPomodoros]_vars

\* C7 witness: a pomodoro started for a task after four counted sessions.
C7_CounterKeptAcrossStart ==
    /\ lastOp = "startPomodoro"
    /\ isRunning
    /\ completedPomodoros = longBreakInterval

\* C8: no operation of the timer changes a task or writes the task list
\* to storage.
C8_TimerLeavesTasksAlone ==
    [][lastOp' \in TimerOps => tasks' = tasks /\ savedTasks' = savedTasks]_vars

\* C9: after any sequence of creations the ids of each store are pairwise
\* distinct and a task just created is not completed.
C9_CreatedIdsDistinct ==
    /\ IdsDistinct(tasks)
    /\ IdsDistinct(tmTasks)
    /\ lastOp = "addTask" => ~tasks[Len(tasks)].completed
    /\ lastOp = "TaskManager.createTask" => ~tmTasks[Len(tmTasks)].completed

\* C10: updateTask leaves the id of every task as it was, whatever the
\* patch, so the ids stay pairwise distinct.
C10_UpdateKeepsIds ==
    [][lastOp' \in {"updateTask", "TaskManager.updateTask"} =>
          /\ IdsOf(tasks') = IdsOf(tasks)
          /\ IdsOf(tmTasks') = IdsOf(tmTasks)]_vars

\* C11: for every task of the store, toggling its completion twice gives
\* back the task list as it was: the task's completed value is the original
\* one, every other task and the order are unchanged.
C11_ToggleTwiceRestores ==
    \A taskId \in StoreIdInputs :
        /\ Toggled(Toggled(tasks, taskId), taskId) = tasks
        /\ FindTask(tasks, taskId) # 0 =>
               Toggled(tasks, taskId)[FindTask(tasks, taskId)].completed
                   # tasks[FindTask(tasks, taskId)].completed

\* C11 witness: a toggle has brought a list of two tasks that was saved
\* back to all tasks open.
C11_ToggledBack ==
    /\ lastOp = "toggleTaskCompletion"
    /\ Len(tasks) = 2
    /\ savedTasks = tasks
    /\ \A i \in 1..Len(tasks) : ~tasks[i].completed

\* the step is a call of the TaskManager method op (time passing is a step
\* of its own)
Called(op) == lastOp' = op /\ now' = now

\* the ids of the tasks a read view returns
ViewIds ==
    IdSet(tmTasks) \cup IdSet(getTodayTasks) \cup IdSet(getTomorrowTasks)
        \cup IdSet(getThisWeekTasks) \cup IdSet(getHighPriorityTasks)
        \cup IdSet(getCompletedTasks)
        \cup UNION {IdSet(getTasksByProject(p)) :
                       p \in IdSet(tmProjects) \cup {NoId}}

\* C12: a deleteTask(id) removes exactly the tasks with that id, the others
\* keep their order, and from then on no read of the store (the list, by
\* project, due today, tomorrow, this week, high priority, completed)
\* returns a task with a deleted id.
C12_DeletedNeverReturned ==
    [][/\ Called("TaskManager.deleteTask") =>
              tmTasks' = SelectSeq(tmTasks, LAMBDA t : t.id # tmArgs'[1])
       /\ \A id \in deletedIds' : id \notin ViewIds']_vars

\* the task the last call named is absent
TaskAbsent == FindTask(tmTasks, tmArgs'[1]) = 0

\* the task the last call named is absent, or it has no subtask with the
\* subtask id the call named
SubtaskAbsent ==
    \/ TaskAbsent
    \/ FindTask(tmTasks[FindTask(tmTasks, tmArgs'[1])].subtasks, tmArgs'[2]) = 0

\* C13: updateTask, deleteTask, createSubtask, updateSubtask and
\* deleteSubtask called with an absent task id or subtask id return null
\* (false for the deletes), leave tasks and projects unchanged and fire no
\* notification.
C13_NotFoundIsNoOp ==
    [][(\/ /\ lastOp' \in {"TaskManager.updateTask", "TaskManager.deleteTask",
                           "TaskManager.createSubtask"}
              /\ TaskAbsent
           \/ /\ lastOp' \in {"TaskManager.updateSubtask",
                           "TaskManager.deleteSubtask"}
              /\ SubtaskAbsent)
          => /\ tmResult' = IF lastOp' \in {"TaskManager.deleteTask",
                                            "TaskManager.deleteSubtask"}
                            THEN "false" ELSE "null"
             /\ tmTasks' = tmTasks
             /\ tmProjects' = tmProjects
             /\ tmNotified' = {}]_vars

\* C13 witness: deleteSubtask has named a subtask its task does not have,
\* while the task has another one.
C13_MissingSubtask ==
    /\ lastOp = "TaskManager.deleteSubtask"
    /\ tmResult = "false"
    /\ FindTask(tmTasks, tmArgs[1]) # 0
    /\ tmTasks[FindTask(tmTasks, tmArgs[1])].subtasks # <<>>
    /\ tmNotified = {}

\* C14: deleteProject of an existing project sets projectId to null on the
\* tasks that pointed to it, removes and reorders no task, leaves the other
\* tasks as they were, fires projects-changed and tasks-changed and returns
\* true; for an absent id nothing changes and false is returned.
C14_DeleteProjectClears ==
    [][Called("TaskManager.deleteProject") =>
          IF tmArgs'[1] \in IdSet(tmProjects)
          THEN /\ Len(tmTasks') = Len(tmTasks)
               /\ \A i \in 1..Len(tmTasks) :
                      IF tmTasks[i].projectId = tmArgs'[1]
                      THEN tmTasks'[i] = [tmTasks[i] EXCEPT !.projectId = NoId]
                      ELSE tmTasks'[i] = tmTasks[i]
               /\ tmArgs'[1] \notin IdSet(tmProjects')
               /\ tmNotified' = {"projectsChanged", "tasksChanged"}
               /\ tmResult' = "true"
          ELSE /\ tmTasks' = tmTasks
               /\ tmProjects' = tmProjects
               /\ tmNotified' = {}
               /\ tmResult' = "false"]_vars

\* C14 witness: a project has been deleted while a task of another project
\* and a task without project are in the list.
C14_ProjectDeleted ==
    /\ lastOp = "TaskManager.deleteProject"
    /\ tmResult = "true"
    /\ Len(tmTasks) = 2
    /\ \E i \in 1..2 : tmTasks[i].projectId \in IdSet(tmProjects)
    /\ \E i \in 1..2 : tmTasks[i].projectId = NoId

C16_ReorderKeepsOtherProjects ==
    [][Called("TaskManager.reorderTasks") =>
          \A p \in IdSet(tmProjects) :
              (/\ IdsDistinct(tmTasks)
               /\ tmArgs'[1] # <<>>
               /\ Range(tmArgs'[1]) = IdSet(getTasksByProject(p)))
              => \A i \in 1..Len(tmTasks) :
                     tmTasks[i].projectId \notin {p, NoId} =>
                         /\ i <= Len(tmTasks')
                         /\ tmTasks'[i] = tmTasks[i]]_vars

\* C17: a record call on a day other than the aggregate's date leaves
\* history[old date] equal to the aggregate as it was before the call, keeps
\* the other history entries, and gives the current aggregate the new date.
C17_RolloverArchivesSnapshot ==
    [][(dailyStats' # dailyStats /\ DayOf(now) # dailyStats.date) =>
          /\ dailyStats.date \in DOMAIN history'
          /\ history'[dailyStats.date] = dailyStats
          /\ DOMAIN history' = (DOMAIN history) \cup {dailyStats.date}
          /\ \A d \in DOMAIN history :
                 d # dailyStats.date => history'[d] = history[d]
          /\ dailyStats'.date = DayOf(now)]_vars

\* C17 witness: a day with completed and planned work has been archived.
C17_DayArchived ==
    \E d \in DOMAIN history :
        /\ history[d].date = d
        /\ history[d].completedTasks > 0
        /\ history[d].plannedPomodoros > 0
        /\ dailyStats.date # d

\* C18: the first record call on a new day leaves the aggregate all zero
\* for the new date except for that call's own increment.
C18_NewDayStartsFromZero ==
    [][(dailyStats' # dailyStats /\ DayOf(now) # dailyStats.date) =>
          dailyStats' =
              Spread(ZeroStats(DayOf(now)),
                     CASE lastOp' = "recordTaskCompleted" ->
                              [completedTasks |-> 1]
                       [] lastOp' = "recordTaskPlanned" ->
                              [plannedTasks |-> 1]
                       [] lastOp' = "recordPomodoroCompleted" ->
                              [completedPomodoros |-> 1,
                               totalFocusTime |-> PomodoroMinutes]
                       [] lastOp' = "recordPomodorosPlanned" ->
                              [plannedPomodoros |-> 1])]_vars

\* r is v = 100 * c / p rounded to a nearest integer and capped at 100
NearestCapped(r, c, p) ==
    /\ r \in 0..100
    /\ \/ 2 * r * p - 200 * c \in (0 - p)..p
       \/ r = 100 /\ 200 * c >= 199 * p

\* C19: with no planned pomodoros the percentage is the task ratio alone,
\* with no planned tasks the pomodoro ratio alone, and 0 with neither; no
\* division by a zero count takes place.
C19_SingleRatio ==
    LET r == getProgressPercentage(dailyStats)
    IN  /\ (dailyStats.plannedTasks = 0 /\ dailyStats.plannedPomodoros = 0)
               => r = 0
        /\ (dailyStats.plannedTasks > 0 /\ dailyStats.plannedPomodoros = 0)
               => NearestCapped(r, dailyStats.completedTasks,
                                dailyStats.plannedTasks)
        /\ (dailyStats.plannedTasks = 0 /\ dailyStats.plannedPomodoros > 0)
               => NearestCapped(r, dailyStats.completedPomodoros,
                                dailyStats.plannedPomodoros)

\* C19 witness: a pomodoro was completed with none planned, two of three
\* planned tasks done.
C19_PomodoroUnplanned ==
    /\ lastOp = "recordPomodoroCompleted"
    /\ dailyStats.plannedPomodoros = 0
    /\ dailyStats.completedPomodoros > 0
    /\ dailyStats.plannedTasks = 3
    /\ dailyStats.completedTasks = 2
    /\ getProgressPercentage(dailyStats) = 67

\* C20: the percentage is an integer in 0..100, and with both planned counts
\* positive it is min(100, round(50 * completedTasks / plannedTasks
\* + 50 * completedPomodoros / plannedPomodoros)), a half rounded up.
C20_WeightedRoundedCapped ==
    LET r == getProgressPercentage(dailyStats)
        ct == dailyStats.completedTasks
        pt == dailyStats.plannedTasks
        cp == dailyStats.completedPomodoros
        pp == dailyStats.plannedPomodoros
        rounded == (100 * (ct * pp + cp * pt) + pt * pp) \div (2 * pt * pp)
    IN  /\ r \in 0..100
        /\ (pt > 0 /\ pp > 0) =>
               r = IF rounded < 100 THEN rounded ELSE 100

\* C27: every TaskManager call that changes a task leaves that task with
\* updatedAt equal to the current time and fires tasks-changed: a task whose
\* fields changed under updateTask, a subtask method or deleteProject, and a
\* task that reorderTasks moved to another index.
C27_ChangeStampsUpdatedAt ==
    [][(/\ now' = now
        /\ lastOp' \in {"TaskManager.updateTask", "TaskManager.createSubtask",
                        "TaskManager.updateSubtask",
                        "TaskManager.deleteSubtask",
                        "TaskManager.deleteProject",
                        "TaskManager.reorderTasks"}
        /\ Len(tmTasks') = Len(tmTasks))
          => \A i \in 1..Len(tmTasks) :
                 tmTasks'[i] # tmTasks[i] =>
                     /\ tmTasks'[i].updatedAt = now
                     /\ "tasksChanged" \in tmNotified']_vars

\* C29: reorderTasks(taskIds) leaves a permutation of the task list: the
\* same length, and every task as often as before, whatever taskIds holds
\* (stated for lists whose ids are pairwise distinct).
C29_ReorderIsPermutation ==
    [][(Called("TaskManager.reorderTasks") /\ IdsDistinct(tmTasks)) =>
          /\ Len(tmTasks') = Len(tmTasks)
          /\ \A t \in Range(tmTasks) \cup Range(tmTasks') :
                 Cardinality({i \in 1..Len(tmTasks') : tmTasks'[i] = t})
                     = Cardinality({i \in 1..Len(tmTasks) : tmTasks[i] = t})]_vars

\* the days a caller may ask for: those the clock passes through, and one
\* before and one after
AskedDays == (DayOf(ClockStart) - 1)..(DayOf(ClockStart + ClockSpan) + 1)

\* C21: getProgressRange(start, end) has exactly one entry for every day
\* from start to end and for no other day, each entry being
\* getHistoricalProgress of its day; it is empty when start is after end.
C21_RangeCoversEveryDay ==
    \A startDate, endDate \in AskedDays, tz \in TimeZoneOffsets :
        LET result == getProgressRange(startDate, endDate, tz)
        IN  /\ DOMAIN result = startDate..endDate
            /\ \A d \in DOMAIN result : result[d] = getHistoricalProgress(d)

\* the container type the specification names for a domain: a list for
\* tasks and projects, an object/mapping for the other four
ExpectedShape(key, value) ==
    IF key \in {"tasks", "projects"} THEN value.kind = "array"
    ELSE value.kind \in {"record", "mapping"}

\* C25: importData validates the shape of each domain on its own: a domain
\* whose value is not of the expected container type (a list for tasks and
\* projects, an object/mapping for timer settings, daily stats, history and
\* app settings) keeps its stored text, and every domain of the expected
\* type is written (unless the storage refuses the write), whatever the
\* other domains of the same backup hold.
C25_ImportChecksShapes ==
    \A data \in ImportInputs, full \in [StorageKeys -> BOOLEAN] :
        data.kind = "record" =>
            LET after == importData(localStorage, data, full)
            IN  \A key \in StorageKeys :
                    IF ExpectedShape(key, Field(data, key))
                    THEN ~full[key] =>
                             after[key] = JSONstringify(Field(data, key))
                    ELSE after[key] = localStorage[key]

\* the load method of a domain, as recorded in lastOp
LoadOp(key) ==
    CASE key = "tasks"         -> "StorageManager.loadTasks"
      [] key = "projects"      -> "StorageManager.loadProjects"
      [] key = "timerSettings" -> "StorageManager.loadTimerSettings"
      [] key = "dailyStats"    -> "StorageManager.loadDailyStats"
      [] key = "history"       -> "StorageManager.loadHistory"
      [] key = "appSettings"   -> "StorageManager.loadAppSettings"

\* the default of a domain: [] for tasks and projects, {} for history, the
\* default the caller supplies for the other three
DomainDefault(key) ==
    CASE key = "tasks"         -> EmptyList
      [] key = "projects"      -> EmptyList
      [] key = "timerSettings" -> TimerSettingsDefault
      [] key = "dailyStats"    -> Rec(dailyStats)
      [] key = "history"       -> EmptyHistory
      [] key = "appSettings"   -> AppSettingsDefault

\* C24: a load of any of the six domains never throws, and it returns the
\* default of the domain ([] for tasks and projects, {} for history, the
\* supplied default for timer settings, daily stats and app settings) when
\* the key is absent or its text is no JSON; right after clearAllData every
\* load returns the default.
C24_LoadFallsBackToDefault ==
    [][\A key \in StorageKeys :
           lastOp' = LoadOp(key) =>
               /\ smResult'.kind # "exception"
               /\ localStorage[key].chars # "json" =>
                      smResult' = DomainDefault(key)
               /\ lastOp = "StorageManager.clearAllData" =>
                      smResult' = DomainDefault(key)]_vars

\* C24 witness: timer settings were saved, their text was damaged later,
\* and loadTimerSettings has returned the default settings while the tasks
\* saved before are still stored.
C24_DefaultForDamagedText ==
    /\ lastOp = "StorageManager.loadTimerSettings"
    /\ localStorage["timerSettings"].chars = "corrupt"
    /\ localStorage["tasks"].chars = "json"
    /\ smResult = TimerSettingsDefault

C22_HistorySurvivesReload ==
    [][Called("FocusToDoApp") =>
           \A date \in DOMAIN history :
               /\ date \in DOMAIN history'
               /\ history'[date] = history[date]]_vars

\* C28: a deleted task is never written back to storage. No task is added
\* in SpecShared, so the tasks missing from the list of tasks.js are those
\* deleted: the list last written by saveState({ tasks }) holds no task
\* that tasks.js does not hold, also after a focus session has completed.
C28_DeletedNeverSavedAgain == IdSet(savedTasks) \subseteq IdSet(tasks)

\* C26: progressData is consistent with the task collection: after every
\* operation on the tasks and under every list filter its four counts equal
\* those computed from the full list of tasks.
C26_ProgressMatchesAllTasks == progressData = updateProgress(tasks)

\* the ids of the task elements of a project on the page, in order
ShownIds(elements, project) == IdsOf(OfProject(elements, project))

\* C30: a drop onto a task of the same group relocates exactly the dragged
\* task, whatever list is displayed: some task x was moved on the page, the
\* other tasks keep their order in the data model, the tasks of other
\* projects keep their indices, and the displayed tasks of every project
\* come in the data model in the order the page shows.
C30_DropMovesDraggedTask ==
    [][Called("drop") /\ IdsDistinct(tasks) =>
           /\ \E x \in IdSet(displayed) :
                  /\ WithoutId(displayed', x) = WithoutId(displayed, x)
                  /\ WithoutId(tasks', x) = WithoutId(tasks, x)
           /\ \A i \in 1..Len(tasks) :
                  (\A j \in 1..Len(displayed') :
                       displayed'[j].project # tasks[i].project)
                      => tasks'[i] = tasks[i]
           /\ \A project \in {displayed'[j].project : j \in 1..Len(displayed')} :
                  FilterIn(ShownIds(tasks', project), IdSet(displayed'))
                      = ShownIds(displayed', project)]_vars
====
